---- MODULE Spec2Model ----
(***************************************************************************)
(* The recording session of the remote-work front end (src/src/main.ts):   *)
(* the Start/Stop controls, the activity badge and the status text, the    *)
(* two asynchronous command handlers startCombinedRecording and            *)
(* stopCombinedRecording, the backend event listeners and the idle status  *)
(* push and poll.  Every await of a handler is a point where any other     *)
(* handler may run, so a handler is one action per synchronous stretch.    *)
(* With it the idle monitoring requests of the tray and the network       *)
(* statistics poller (src/src/network-usage.ts, src/src/network-stats.ts). *)
(***************************************************************************)
EXTENDS Naturals, Sequences, FiniteSets

VARIABLES
    recordDisplay,   \* recordBtn.style.display
    recordDisabled,  \* recordBtn.disabled
    stopDisplay,     \* stopBtn.style.display
    stopDisabled,    \* stopBtn.disabled
    badge,           \* activityBadge.style.backgroundColor
    statusText,      \* screenshotStatus.textContent, a sequence of text pieces
    calls,           \* activations of the two command handlers suspended at an
                     \* await, oldest first
    polls,           \* get_cached_idle_status calls in flight
    pollTimer,       \* the interval timer of the cached-status poll is live
    monitoring,      \* what the tray asked for last: "started" or "stopped"
    monitorCalls,    \* start/stop_system_idle_monitoring calls in flight
    intervalId,      \* NetworkUsageComponent.intervalId, 0 for null
    timers,          \* ids of the live interval timers the component created
    fetches,         \* statistics fetches in flight: fresh, issued since the
                     \* last stop(), and stale, issued before it
    stats,           \* the statistics the four display elements show
    screen,          \* what document.body holds: "loading", the page as
                     \* served; "welcome"; "main", the page rebuilt
    listeners,       \* handlers registered for each backend event, one per
                     \* run of initializeMainAppComponents
    welcomes,        \* runs of showWelcomeScreen so far
    gateCalls,       \* the identity gate's backend calls and timers pending,
                     \* oldest first
    statusMessage,   \* text of #statusMessage of the welcome screen on
                     \* display, a sequence of text pieces
    idConfirmed,     \* some is_user_id_set call returned true
    greetMsg,        \* earlier pages: greetMsgEl.textContent
    greets,          \* earlier pages: greet calls in flight
    lastOp,          \* the handler step that ran last
    lastCall,        \* the activation that step belonged to
    lastArg,         \* the payload, result or error that step received ("" for
                     \* a poll or an activity sample)
    track,           \* the history this run records on top of lastOp:
                     \* "none", "commands" or "samples"
    lastTs,          \* samples: timestamp of the sample the last step received
    newestTs,        \* samples: largest timestamp of the samples received
    newestStatus,    \* samples: status of the sample with that timestamp
    newestSource     \* samples: the channel it came by, "push" or "poll"

vars == <<recordDisplay, recordDisabled, stopDisplay, stopDisabled, badge,
          statusText, calls, polls, pollTimer, monitoring, monitorCalls,
          intervalId, timers, fetches, stats, screen, listeners, welcomes,
          gateCalls, statusMessage, idConfirmed, greetMsg, greets, lastOp, lastCall, lastArg, track,
          lastTs, newestTs, newestStatus, newestSource>>

controls == <<recordDisplay, recordDisabled, stopDisplay, stopDisabled>>
history == <<track, newestTs, newestStatus, newestSource>>
session == <<controls, badge, statusText, calls>>
monitor == <<monitoring, monitorCalls>>
poller == <<intervalId, timers, fetches, stats>>
gate == <<screen, listeners, welcomes, gateCalls, statusMessage, idConfirmed>>
greeting == <<greetMsg, greets>>

----------------------------------------------------------------------------
(* Bounds *)

MaxInFlight == 2   \* activations of the command handlers suspended at once
MaxPolls == 1      \* cached-status polls in flight at once
MaxTs == 2         \* timestamps of activity samples are 1..MaxTs
MaxAppends == 1    \* " | payload" pieces appended to one status text
MaxMonitorCalls == 1  \* start/stop_system_idle_monitoring calls in flight at once
MaxTimers == 2     \* live interval timers of one NetworkUsageComponent
MaxFetches == 2    \* statistics fetches in flight at once
MaxWelcomes == 2   \* runs of showWelcomeScreen
MaxGreets == 1     \* greet calls in flight at once
MaxGateCalls == 2  \* calls and timers of the identity gate pending at once
MaxPending == 1    \* backend calls of all kinds in flight at once, where the
                   \* page runs with the tray's requests and the poller

----------------------------------------------------------------------------
(* Values *)

Blue == "#2196F3"
Red == "#f44336"
Yellow == "#FFC107"
Green == "#4CAF50"
Unpainted == ""          \* no inline colour yet: the stylesheet's colour shows

Results == {"ok"}                     \* replies of a backend command
Errors == {"e1", "e2"}                \* what a rejected backend command throws
StringPayloads == {"p"}               \* event payloads of type string
ObjectPayloads == {"[object Object]"} \* a payload of another type, as a template
                                      \* literal prints it
Payloads == StringPayloads \cup ObjectPayloads
SnapshotPayload == "Next snapshot in: 5s|x"
Statuses == {"active", "idle"}

\* One run of startCombinedRecording or stopCombinedRecording suspended at
\* the await of pc.  Recorded when track = "commands": overridden,
\* all-processes-stopped was handled since the command was issued;
\* superseded, a Start issued after this command has been confirmed since.
Activation(op, pc) ==
    [op |-> op, pc |-> pc, overridden |-> FALSE, superseded |-> FALSE]

NoCall == [op |-> "none", pc |-> "", overridden |-> FALSE, superseded |-> FALSE]

At(a, pc) == [a EXCEPT !.pc = pc]

Without(s, i) == [j \in 1..(Len(s) - 1) |-> IF j < i THEN s[j] ELSE s[j + 1]]
Replace(s, i, a) == [s EXCEPT ![i] = a]

InFlight == fetches.fresh + fetches.stale
Pending == Len(calls) + polls + monitorCalls + InFlight
\* One more backend call may be issued
Room == track = "app" => Pending < MaxPending

Sep == " | "
Appends(text) == Cardinality({i \in DOMAIN text : text[i] = Sep})

----------------------------------------------------------------------------
Loaded ==
    /\ recordDisplay = "block"
    /\ recordDisabled = FALSE
    /\ stopDisplay = "none"
    /\ stopDisabled = FALSE
    /\ badge = Unpainted
    /\ statusText = <<>>
    /\ calls = <<>>
    /\ polls = 0
    /\ pollTimer = TRUE
    /\ monitoring = "started"
    /\ monitorCalls = 0
    /\ screen = "main"
    /\ listeners = 1
    /\ welcomes = 0
    /\ gateCalls = <<>>
    /\ statusMessage = <<>>
    /\ idConfirmed = TRUE
    /\ greetMsg = ""
    /\ greets = 0
    /\ lastOp = "init"
    /\ lastCall = NoCall
    /\ lastArg = ""
    /\ lastTs = 0
    /\ newestTs = 0
    /\ newestStatus = ""
    /\ newestSource = ""

NoFetches == [fresh |-> 0, stale |-> 0]
NoStats == [downloadSpeed |-> "", uploadSpeed |-> "",
            totalDownloaded |-> "", totalUploaded |-> ""]

\* src/src/network-usage.ts 8-20: the component as its constructor leaves it
Constructed ==
    /\ intervalId = 0
    /\ timers = {}
    /\ fetches = NoFetches
    /\ stats = NoStats

\* src/src/main.ts 220-221: the component after networkUsage.start()
Started ==
    /\ intervalId = 1
    /\ timers = {1}
    /\ fetches = [fresh |-> 1, stale |-> 0]
    /\ stats = NoStats

Init == Loaded /\ Started /\ track = "none"
InitCommands == Loaded /\ Started /\ track = "commands"
InitSamples == Loaded /\ Started /\ track = "samples"
InitApp == Loaded /\ Started /\ track = "app"
InitPoller == Loaded /\ Constructed /\ track = "poller"

\* A step of the page's command handlers and listeners
Step(op, a, arg) ==
    /\ lastOp' = op
    /\ lastCall' = a
    /\ lastArg' = arg
    /\ lastTs' = 0
    /\ UNCHANGED <<monitor, poller, gate>>

\* A step of main.ts: the tray's requests and the poller are left alone
Did(op, a, arg) == Step(op, a, arg) /\ UNCHANGED greeting

----------------------------------------------------------------------------
(* startCombinedRecording, src/src/main.ts 223-256 *)

ErrorText(error) == <<"Error: ", error>>

\* StartTry with line 226 left out: the Start button stays enabled
StartTryNoDisable ==
    /\ statusText' = <<"Remote Worker: Starting...">>
    /\ UNCHANGED <<controls, badge>>

\* lines 226-230: the synchronous stretch up to the first await
StartTry ==
    /\ recordDisabled' = TRUE
    /\ statusText' = <<"Remote Worker: Starting...">>
    /\ UNCHANGED <<recordDisplay, stopDisplay, stopDisabled, badge>>

\* lines 231-234: start_combined_recording returned, start_idle_detection is called
StartResult(result) ==
    /\ statusText' = <<result>>
    /\ UNCHANGED <<controls, badge>>

\* StartSuccess with line 243 left out: the Start button stays on display
StartSuccessKeepsStart ==
    /\ badge' = Blue
    /\ stopDisplay' = "block"
    /\ stopDisabled' = FALSE
    /\ UNCHANGED <<recordDisplay, recordDisabled, statusText>>

\* lines 236-247: both calls returned
StartSuccess ==
    /\ badge' = Blue
    /\ recordDisplay' = "none"
    /\ stopDisplay' = "block"
    /\ stopDisabled' = FALSE
    /\ UNCHANGED <<recordDisabled, statusText>>

\* StartCatch with line 250 left out: the Start button is not re-enabled
StartCatchNoEnable(error) ==
    /\ statusText' = ErrorText(error)
    /\ recordDisplay' = "block"
    /\ stopDisplay' = "none"
    /\ UNCHANGED <<recordDisabled, stopDisabled, badge>>

\* lines 248-254: either call threw
StartCatch(error) ==
    /\ statusText' = ErrorText(error)
    /\ recordDisabled' = FALSE
    /\ recordDisplay' = "block"
    /\ stopDisplay' = "none"
    /\ UNCHANGED <<stopDisabled, badge>>

\* A button takes a click only while it is shown and enabled.
CanClickStart == recordDisplay = "block" /\ ~recordDisabled
CanClickStop == stopDisplay = "block" /\ ~stopDisabled

ClickStart ==
    /\ CanClickStart
    /\ Len(calls) < MaxInFlight
    /\ Room
    /\ StartTry
    /\ calls' = Append(calls, Activation("start", "start_combined_recording"))
    /\ Did("click-start", Activation("start", "start_combined_recording"), "")
    /\ UNCHANGED <<polls, pollTimer, history>>

StartCallOk ==
    \E i \in DOMAIN calls, result \in Results :
        /\ calls[i].op = "start" /\ calls[i].pc = "start_combined_recording"
        /\ StartResult(result)
        /\ calls' = Replace(calls, i, At(calls[i], "start_idle_detection"))
        /\ Did("start-result", calls[i], result)
        /\ UNCHANGED <<polls, pollTimer, history>>

StartCallErr ==
    \E i \in DOMAIN calls, error \in Errors :
        /\ calls[i].op = "start" /\ calls[i].pc = "start_combined_recording"
        /\ StartCatch(error)
        /\ calls' = Without(calls, i)
        /\ Did("start-failed", calls[i], error)
        /\ UNCHANGED <<polls, pollTimer, history>>

\* The activation at i ends confirmed: the commands issued before it are
\* superseded.
Supersede(s, i) ==
    [j \in 1..(Len(s) - 1) |->
        IF j < i
        THEN [s[j] EXCEPT !.superseded = (track = "commands")]
        ELSE s[j + 1]]

StartIdleOk ==
    \E i \in DOMAIN calls :
        /\ calls[i].op = "start" /\ calls[i].pc = "start_idle_detection"
        /\ StartSuccess
        /\ calls' = Supersede(calls, i)
        /\ Did("start-confirmed", calls[i], "")
        /\ UNCHANGED <<polls, pollTimer, history>>

StartIdleErr ==
    \E i \in DOMAIN calls, error \in Errors :
        /\ calls[i].op = "start" /\ calls[i].pc = "start_idle_detection"
        /\ StartCatch(error)
        /\ calls' = Without(calls, i)
        /\ Did("start-idle-failed", calls[i], error)
        /\ UNCHANGED <<polls, pollTimer, history>>

----------------------------------------------------------------------------
(* stopCombinedRecording, src/src/main.ts 258-290 *)

\* lines 261-265
StopTry ==
    /\ stopDisabled' = TRUE
    /\ statusText' = <<"Stopping recording...">>
    /\ UNCHANGED <<recordDisplay, recordDisabled, stopDisplay, badge>>

\* lines 266-269: stop_combined_recording returned, stop_idle_detection is called
StopResult(result) ==
    /\ statusText' = <<result>>
    /\ UNCHANGED <<controls, badge>>

\* StopFinally as the earlier stopRecording has it: only the Stop button is
\* re-enabled, the buttons are swapped in the try block alone
StopFinallyOnlyEnablesStop ==
    /\ stopDisabled' = FALSE
    /\ UNCHANGED <<recordDisplay, recordDisabled, stopDisplay>>

\* lines 279-288: the finally block
StopFinally ==
    /\ recordDisplay' = "block"
    /\ recordDisabled' = FALSE
    /\ stopDisplay' = "none"
    /\ stopDisabled' = FALSE

\* StopSuccess without the finally block: the badge alone is written
StopSuccessNoFinally ==
    /\ badge' = Red
    /\ UNCHANGED <<controls, statusText>>

\* lines 271-275, then the finally block
StopSuccess ==
    /\ badge' = Red
    /\ StopFinally
    /\ UNCHANGED statusText

\* StopCatch without the finally block
StopCatchNoFinally(error) ==
    /\ statusText' = ErrorText(error)
    /\ UNCHANGED <<controls, badge>>

\* lines 277-278, then the finally block
StopCatch(error) ==
    /\ statusText' = ErrorText(error)
    /\ StopFinally
    /\ UNCHANGED badge

ClickStop ==
    /\ CanClickStop
    /\ Len(calls) < MaxInFlight
    /\ Room
    /\ StopTry
    /\ calls' = Append(calls, Activation("stop", "stop_combined_recording"))
    /\ Did("click-stop", Activation("stop", "stop_combined_recording"), "")
    /\ UNCHANGED <<polls, pollTimer, history>>

StopCallOk ==
    \E i \in DOMAIN calls, result \in Results :
        /\ calls[i].op = "stop" /\ calls[i].pc = "stop_combined_recording"
        /\ StopResult(result)
        /\ calls' = Replace(calls, i, At(calls[i], "stop_idle_detection"))
        /\ Did("stop-result", calls[i], result)
        /\ UNCHANGED <<polls, pollTimer, history>>

StopCallErr ==
    \E i \in DOMAIN calls, error \in Errors :
        /\ calls[i].op = "stop" /\ calls[i].pc = "stop_combined_recording"
        /\ StopCatch(error)
        /\ calls' = Without(calls, i)
        /\ Did("stop-failed", calls[i], error)
        /\ UNCHANGED <<polls, pollTimer, history>>

StopIdleOk ==
    \E i \in DOMAIN calls :
        /\ calls[i].op = "stop" /\ calls[i].pc = "stop_idle_detection"
        /\ StopSuccess
        /\ calls' = Without(calls, i)
        /\ Did("stop-confirmed", calls[i], "")
        /\ UNCHANGED <<polls, pollTimer, history>>

StopIdleErr ==
    \E i \in DOMAIN calls, error \in Errors :
        /\ calls[i].op = "stop" /\ calls[i].pc = "stop_idle_detection"
        /\ StopCatch(error)
        /\ calls' = Without(calls, i)
        /\ Did("stop-idle-failed", calls[i], error)
        /\ UNCHANGED <<polls, pollTimer, history>>

----------------------------------------------------------------------------
(* Backend event listeners, src/src/main.ts 300-466 *)

\* A listener that only rewrites the status text.
SetText(text) ==
    /\ statusText' = text
    /\ UNCHANGED <<controls, badge>>

Event(name, payload) ==
    /\ Did(name, NoCall, payload)
    /\ UNCHANGED polls

\* lines 301-305
ScreenshotTaken ==
    \E payload \in StringPayloads :
        /\ SetText(<<"Screenshot taken: ", payload>>)
        /\ Event("screenshot-taken", payload)
        /\ UNCHANGED <<calls, pollTimer, history>>

\* ScreenshottingFinishedUI painting the badge as recording-finished does
ScreenshottingFinishedUIPaintsRed(payload) ==
    /\ statusText' = statusText \o <<Sep, payload>>
    /\ recordDisplay' = "block"
    /\ recordDisabled' = FALSE
    /\ stopDisplay' = "none"
    /\ stopDisabled' = FALSE
    /\ badge' = Red

\* lines 308-323: the text is appended to, the buttons are reset
ScreenshottingFinishedUI(payload) ==
    /\ statusText' = statusText \o <<Sep, payload>>
    /\ recordDisplay' = "block"
    /\ recordDisabled' = FALSE
    /\ stopDisplay' = "none"
    /\ stopDisabled' = FALSE
    /\ UNCHANGED badge

ScreenshottingFinished ==
    \E payload \in StringPayloads :
        /\ Appends(statusText) < MaxAppends
        /\ ScreenshottingFinishedUI(payload)
        /\ Event("screenshotting-finished", payload)
        /\ UNCHANGED <<calls, pollTimer, history>>

\* lines 326-330
RecordingStarted ==
    \E payload \in StringPayloads :
        /\ SetText(<<"Recording started: ", payload>>)
        /\ Event("recording-started", payload)
        /\ UNCHANGED <<calls, pollTimer, history>>

\* lines 332-336 and 432-441: two listeners of one event, run in the order
\* they were registered; the second keeps the part before '|' of a payload
\* that holds "Next snapshot in:"
TimePart(payload) == "Next snapshot in: 5s"

RecordingProgressText(payload) ==
    IF payload = SnapshotPayload
    THEN <<TimePart(payload)>>
    ELSE <<"Recording progress: ", payload>>

RecordingProgress ==
    \E payload \in StringPayloads \cup {SnapshotPayload} :
        /\ SetText(RecordingProgressText(payload))
        /\ Event("recording-progress", payload)
        /\ UNCHANGED <<calls, pollTimer, history>>

\* lines 338-358
RecordingFinishedUI(payload) ==
    /\ statusText' = <<"Recording finished: ", payload>>
    /\ recordDisplay' = "block"
    /\ recordDisabled' = FALSE
    /\ stopDisplay' = "none"
    /\ stopDisabled' = FALSE
    /\ badge' = Red

RecordingFinished ==
    \E payload \in StringPayloads :
        /\ RecordingFinishedUI(payload)
        /\ Event("recording-finished", payload)
        /\ UNCHANGED <<calls, pollTimer, history>>

\* lines 360-370
RecordingPausedUI(payload) ==
    /\ statusText' = <<"Recording paused: ", payload>>
    /\ badge' = Yellow
    /\ UNCHANGED controls

RecordingPaused ==
    \E payload \in StringPayloads :
        /\ RecordingPausedUI(payload)
        /\ Event("recording-paused", payload)
        /\ UNCHANGED <<calls, pollTimer, history>>

\* RecordingResumedUI with lines 376-379 left out: the badge is not painted
RecordingResumedUIKeepsBadge(payload) ==
    /\ statusText' = <<"Recording resumed: ", payload>>
    /\ UNCHANGED <<controls, badge>>

\* lines 372-381
RecordingResumedUI(payload) ==
    /\ statusText' = <<"Recording resumed: ", payload>>
    /\ badge' = Blue
    /\ UNCHANGED controls

RecordingResumed ==
    \E payload \in StringPayloads :
        /\ RecordingResumedUI(payload)
        /\ Event("recording-resumed", payload)
        /\ UNCHANGED <<calls, pollTimer, history>>

\* lines 383-387
RecordingConverted ==
    \E payload \in StringPayloads :
        /\ SetText(<<"Video created: ", payload>>)
        /\ Event("recording-converted", payload)
        /\ UNCHANGED <<calls, pollTimer, history>>

\* lines 389-393
RecordingError ==
    \E payload \in StringPayloads :
        /\ SetText(<<"Recording error: ", payload>>)
        /\ Event("recording-error", payload)
        /\ UNCHANGED <<calls, pollTimer, history>>

\* AllProcessesStoppedUI with line 403 left out
AllProcessesStoppedUINoEnable(payload) ==
    /\ statusText' = <<"All processes stopped: ", payload>>
    /\ recordDisplay' = "block"
    /\ stopDisplay' = "none"
    /\ stopDisabled' = FALSE
    /\ badge' = Red
    /\ UNCHANGED recordDisabled

\* lines 396-416
AllProcessesStoppedUI(payload) ==
    /\ statusText' = <<"All processes stopped: ", payload>>
    /\ recordDisplay' = "block"
    /\ recordDisabled' = FALSE
    /\ stopDisplay' = "none"
    /\ stopDisabled' = FALSE
    /\ badge' = Red

AllProcessesStopped ==
    \E payload \in StringPayloads :
        /\ AllProcessesStoppedUI(payload)
        /\ Event("all-processes-stopped", payload)
        /\ calls' = [i \in DOMAIN calls |->
                        [calls[i] EXCEPT !.overridden = (track = "commands")]]
        /\ UNCHANGED <<pollTimer, history>>

\* UserIdleUI that also ends the session on the screen when the user idles
UserIdleUIStops(payload) ==
    IF payload \in StringPayloads
    THEN /\ statusText' = <<"Idle: ", payload>>
         /\ badge' = Yellow
         /\ recordDisplay' = "block"
         /\ stopDisplay' = "none"
         /\ UNCHANGED <<recordDisabled, stopDisabled>>
    ELSE UNCHANGED <<controls, badge, statusText>>

\* lines 444-454: only a string payload is handled
UserIdleUI(payload) ==
    IF payload \in StringPayloads
    THEN /\ statusText' = <<"Idle: ", payload>>
         /\ badge' = Yellow
         /\ UNCHANGED controls
    ELSE UNCHANGED <<controls, badge, statusText>>

UserIdle ==
    \E payload \in Payloads :
        /\ UserIdleUI(payload)
        /\ Event("user-idle", payload)
        /\ UNCHANGED <<calls, pollTimer, history>>

\* lines 456-466
UserActiveUI(payload) ==
    IF payload \in StringPayloads
    THEN /\ statusText' = <<"Active: ", payload>>
         /\ badge' = Green
         /\ UNCHANGED controls
    ELSE UNCHANGED <<controls, badge, statusText>>

UserActive ==
    \E payload \in Payloads :
        /\ UserActiveUI(payload)
        /\ Event("user-active", payload)
        /\ UNCHANGED <<calls, pollTimer, history>>

----------------------------------------------------------------------------
(* Idle status: push and poll, src/src/main.ts 522-560 and 581-583 *)

\* lines 532-543
updateIdleUI(status) ==
    /\ badge' = IF status = "active" THEN Green ELSE Yellow
    /\ UNCHANGED <<controls, statusText>>

\* An activity sample was read by the sensor at time ts and comes by the
\* channel source; the front end is handed its status only.
Sample(name, source, status, ts) ==
    /\ lastOp' = name
    /\ lastCall' = NoCall
    /\ lastArg' = ""
    /\ IF track = "samples"
       THEN /\ lastTs' = ts
            /\ newestTs' = IF ts >= newestTs THEN ts ELSE newestTs
            /\ newestStatus' = IF ts >= newestTs THEN status ELSE newestStatus
            /\ newestSource' = IF ts >= newestTs THEN source ELSE newestSource
       ELSE UNCHANGED <<lastTs, newestTs, newestStatus, newestSource>>
    /\ UNCHANGED <<calls, track, pollTimer, monitor, poller, gate, greeting>>

\* lines 556-560
SystemIdleStatus ==
    \E status \in Statuses, ts \in 1..MaxTs :
        /\ updateIdleUI(status)
        /\ Sample("system-idle-status", "push", status, ts)
        /\ UNCHANGED polls

\* lines 581-583 and 524: the interval timer fires, the call is issued
PollTick ==
    /\ pollTimer
    /\ polls < MaxPolls
    /\ Room
    /\ polls' = polls + 1
    /\ Did("poll-tick", NoCall, "")
    /\ UNCHANGED <<session, pollTimer, history>>

\* line 525
PollOk ==
    \E status \in Statuses, ts \in 1..MaxTs :
        /\ polls > 0
        /\ polls' = polls - 1
        /\ updateIdleUI(status)
        /\ Sample("poll-result", "poll", status, ts)

\* PollCatch painting the badge as for an idle status
PollCatchRepaints(error) ==
    /\ badge' = Yellow
    /\ UNCHANGED <<controls, statusText, pollTimer>>

\* lines 526-528: the error is logged
PollCatch(error) == UNCHANGED <<controls, badge, statusText, pollTimer>>

PollErr ==
    \E error \in Errors :
        /\ polls > 0
        /\ polls' = polls - 1
        /\ PollCatch(error)
        /\ Did("poll-failed", NoCall, "")
        /\ UNCHANGED <<calls, history>>

----------------------------------------------------------------------------
(* Idle monitoring requests of the tray, src/src/main.ts 502-519, 567-575 *)

\* A step of the tray's handlers
MonitorDid(op, arg) ==
    /\ lastOp' = op
    /\ lastCall' = NoCall
    /\ lastArg' = arg
    /\ lastTs' = 0
    /\ UNCHANGED <<calls, polls, poller, gate, greeting, history>>

\* lines 502-504 and 512-514: the call is issued; nothing of the page and
\* no timer is touched
MonitoringTry == UNCHANGED <<controls, badge, statusText, pollTimer>>

\* lines 567-570, 502-504
StartMonitoringRequest ==
    /\ monitorCalls < MaxMonitorCalls
    /\ Room
    /\ monitorCalls' = monitorCalls + 1
    /\ monitoring' = "started"
    /\ MonitoringTry
    /\ MonitorDid("start-monitoring-request", "")

\* lines 572-575, 512-514
StopMonitoringRequest ==
    /\ monitorCalls < MaxMonitorCalls
    /\ Room
    /\ monitorCalls' = monitorCalls + 1
    /\ monitoring' = "stopped"
    /\ MonitoringTry
    /\ MonitorDid("stop-monitoring-request", "")

\* lines 505 and 515: the reply is logged
MonitorCallOk ==
    /\ monitorCalls > 0
    /\ monitorCalls' = monitorCalls - 1
    /\ UNCHANGED <<controls, badge, statusText, pollTimer, monitoring>>
    /\ MonitorDid("monitor-result", "")

\* MonitoringCatch showing the error as the command handlers do
MonitoringCatchShowsError(error) ==
    /\ statusText' = ErrorText(error)
    /\ UNCHANGED <<controls, badge, pollTimer>>

\* lines 506-508 and 516-518: the error is logged
MonitoringCatch(error) == UNCHANGED <<controls, badge, statusText, pollTimer>>

MonitorCallErr ==
    \E error \in Errors :
        /\ monitorCalls > 0
        /\ monitorCalls' = monitorCalls - 1
        /\ MonitoringCatch(error)
        /\ MonitorDid("monitor-failed", "")
        /\ UNCHANGED monitoring

----------------------------------------------------------------------------
(* NetworkUsageComponent, src/src/network-usage.ts 1-58; NetworkStatsComponent
   of src/src/network-stats.ts has the same start, stop and update *)

\* What get_global_network_stats may reply with
ParsablePayloads == {"{1}", "{2}"}
\* "<html>" makes JSON.parse throw, "null" parses and makes line 34 throw
UnparsablePayloads == {"<html>", "null"}

\* line 32: JSON.parse of a reply that is parsable
JSONParse(text) ==
    IF text = "{1}"
    THEN [downloadSpeed |-> "1 KB/s", uploadSpeed |-> "1 KB/s",
          totalDownloaded |-> "1 MB", totalUploaded |-> "1 MB"]
    ELSE [downloadSpeed |-> "2 KB/s", uploadSpeed |-> "2 KB/s",
          totalDownloaded |-> "2 MB", totalUploaded |-> "2 MB"]

\* A step of the component
PollerDid(op, arg) ==
    /\ lastOp' = op
    /\ lastCall' = NoCall
    /\ lastArg' = arg
    /\ lastTs' = 0
    /\ UNCHANGED <<calls, polls, pollTimer, monitor, gate, greeting, history>>

\* lines 23-30: updateNetworkUsage up to its await
FetchTry == fetches' = [fetches EXCEPT !.fresh = @ + 1]

\* window.setInterval hands out an id no live timer has
NewTimer == CHOOSE id \in 1..MaxTimers :
                /\ id \notin timers
                /\ \A j \in 1..(id - 1) : j \in timers

\* lines 44-50
start ==
    /\ FetchTry
    /\ intervalId' = NewTimer
    /\ timers' = timers \cup {NewTimer}
    /\ UNCHANGED <<controls, badge, statusText, stats>>

PollerStart ==
    /\ InFlight < MaxFetches
    /\ Cardinality(timers) < MaxTimers
    /\ start
    /\ PollerDid("net-start", "")

\* stop with the display elements cleared as well
stopClearsDisplay ==
    /\ IF intervalId # 0
       THEN /\ timers' = timers \ {intervalId}
            /\ intervalId' = 0
       ELSE UNCHANGED <<intervalId, timers>>
    /\ stats' = NoStats
    /\ UNCHANGED <<controls, badge, statusText>>

\* lines 53-58
stop ==
    /\ IF intervalId # 0
       THEN /\ timers' = timers \ {intervalId}
            /\ intervalId' = 0
       ELSE UNCHANGED <<intervalId, timers>>
    /\ UNCHANGED <<controls, badge, statusText, stats>>

\* The fetches in flight were issued before this stop()
PollerStop ==
    /\ stop
    /\ fetches' = [fresh |-> 0, stale |-> InFlight]
    /\ PollerDid("net-stop", IF intervalId # 0 THEN "cleared" ELSE "no-timer")

\* lines 47-49: a live timer fires
PollerTick ==
    \E id \in timers :
        /\ InFlight < MaxFetches
        /\ Room
        /\ FetchTry
        /\ UNCHANGED <<controls, badge, statusText, intervalId, timers, stats>>
        /\ PollerDid("net-tick", "")

\* One of the fetches in flight returns
Returned(kind) == fetches' = [fetches EXCEPT ![kind] = @ - 1]

\* lines 32-37
FetchApply(payload) ==
    /\ stats' = JSONParse(payload)
    /\ UNCHANGED <<controls, badge, statusText, intervalId, timers>>

FetchOk ==
    \E kind \in {"fresh", "stale"}, payload \in ParsablePayloads :
        /\ fetches[kind] > 0
        /\ Returned(kind)
        /\ FetchApply(payload)
        /\ PollerDid("net-fetch-ok", kind)

\* FetchCatch with the display elements cleared
FetchCatchBlanks(error) ==
    /\ stats' = NoStats
    /\ UNCHANGED <<controls, badge, statusText, intervalId, timers>>

\* lines 38-40: the error is logged
FetchCatch(error) ==
    UNCHANGED <<controls, badge, statusText, intervalId, timers, stats>>

\* line 32 or line 34 throws, before any element is written
FetchUnparsable ==
    \E kind \in {"fresh", "stale"}, payload \in UnparsablePayloads :
        /\ fetches[kind] > 0
        /\ Returned(kind)
        /\ FetchCatch(payload)
        /\ PollerDid("net-fetch-unparsable", kind)

\* line 27 throws
FetchErr ==
    \E kind \in {"fresh", "stale"}, error \in Errors :
        /\ fetches[kind] > 0
        /\ Returned(kind)
        /\ FetchCatch(error)
        /\ PollerDid("net-fetch-failed", kind)

----------------------------------------------------------------------------
(* The identity gate, src/src/main.ts 6-21, 27-209 and 546-550 *)

\* What the user may have typed into #userId, character by character
Inputs == {<<>>, <<" ">>, <<"a", "b">>, <<" ", "a", "b", " ">>,
           <<"a", "b", "c">>, <<" ", "a", "b", "c", " ">>}

RECURSIVE TrimStart(_)
TrimStart(str) ==
    IF str # <<>> /\ Head(str) = " " THEN TrimStart(Tail(str)) ELSE str

RECURSIVE TrimEnd(_)
TrimEnd(str) ==
    IF str # <<>> /\ str[Len(str)] = " "
    THEN TrimEnd(SubSeq(str, 1, Len(str) - 1))
    ELSE str

\* line 136: String.prototype.trim
Trim(str) == TrimEnd(TrimStart(str))

\* A call or timer of the gate that is pending.  dom is the welcome screen
\* whose Continue button started it, 0 for the check of the page load.
GateCall(pc, dom) == [pc |-> pc, dom |-> dom]

\* lines 546-550: DOMContentLoaded has called checkUserId
PageLoading ==
    /\ recordDisplay = "block"
    /\ recordDisabled = FALSE
    /\ stopDisplay = "none"
    /\ stopDisabled = FALSE
    /\ badge = Unpainted
    /\ statusText = <<>>
    /\ calls = <<>>
    /\ polls = 0
    /\ pollTimer = FALSE
    /\ monitoring = "started"
    /\ monitorCalls = 0
    /\ screen = "loading"
    /\ listeners = 0
    /\ welcomes = 0
    /\ gateCalls = <<GateCall("checkUserId", 0)>>
    /\ statusMessage = <<>>
    /\ idConfirmed = FALSE
    /\ greetMsg = ""
    /\ greets = 0
    /\ lastOp = "load"
    /\ lastCall = NoCall
    /\ lastArg = ""
    /\ lastTs = 0
    /\ newestTs = 0
    /\ newestStatus = ""
    /\ newestSource = ""

InitGate == PageLoading /\ Constructed /\ track = "gate"

\* A step of the gate
GateDid(op, arg) ==
    /\ lastOp' = op
    /\ lastCall' = NoCall
    /\ lastArg' = arg
    /\ lastTs' = 0
    /\ UNCHANGED <<calls, polls, pollTimer, monitor, greeting, history>>

\* lines 212-484: the elements of the rebuilt page are looked up, a new
\* NetworkUsageComponent is started and a handler is added for each event
initializeMainAppComponents ==
    /\ listeners' = listeners + 1
    /\ FetchTry
    /\ intervalId' = NewTimer
    /\ timers' = timers \cup {NewTimer}

\* lines 196-209: the page is rebuilt from originalHTML
showMainApp ==
    /\ screen' = "main"
    /\ recordDisplay' = "block"
    /\ recordDisabled' = FALSE
    /\ stopDisplay' = "none"
    /\ stopDisabled' = FALSE
    /\ badge' = Unpainted
    /\ statusText' = <<>>
    /\ stats' = NoStats
    /\ statusMessage' = <<>>
    /\ initializeMainAppComponents
    /\ UNCHANGED welcomes

\* showMainApp can run within the bounds
CanShowMainApp == Cardinality(timers) < MaxTimers /\ InFlight < MaxFetches

\* lines 27-184: the body is replaced by the welcome screen
showWelcomeScreen ==
    /\ screen' = "welcome"
    /\ welcomes' = welcomes + 1
    /\ statusMessage' = <<>>
    /\ UNCHANGED <<controls, badge, statusText, poller, listeners>>

\* lines 187-193, for the element the handler of a holds: it is on display
\* if a's welcome screen is
showStatusMessage(a, message) ==
    /\ statusMessage' =
          IF screen = "welcome" /\ a.dom = welcomes THEN message
          ELSE statusMessage
    /\ UNCHANGED <<controls, badge, statusText, poller, screen, listeners,
                   welcomes>>

\* lines 8, 12-14: is_user_id_set returned true
CheckUserIdSet ==
    \E i \in DOMAIN gateCalls :
        /\ gateCalls[i].pc = "checkUserId"
        /\ CanShowMainApp
        /\ showMainApp
        /\ idConfirmed' = TRUE
        /\ gateCalls' = Without(gateCalls, i)
        /\ GateDid("check-set", "")

\* lines 8-11: is_user_id_set returned false
CheckUserIdUnset ==
    \E i \in DOMAIN gateCalls :
        /\ gateCalls[i].pc = "checkUserId"
        /\ welcomes < MaxWelcomes
        /\ showWelcomeScreen
        /\ gateCalls' = Without(gateCalls, i)
        /\ GateDid("check-unset", "")
        /\ UNCHANGED idConfirmed

\* checkUserIdCatch letting the user in
checkUserIdCatchShowsMain(error) == showMainApp

\* lines 16-20: is_user_id_set threw
checkUserIdCatch(error) == showWelcomeScreen

CheckUserIdErr ==
    \E i \in DOMAIN gateCalls, error \in Errors :
        /\ gateCalls[i].pc = "checkUserId"
        /\ welcomes < MaxWelcomes
        /\ checkUserIdCatch(error)
        /\ gateCalls' = Without(gateCalls, i)
        /\ GateDid("check-failed", error)
        /\ UNCHANGED idConfirmed

\* ContinueTry without lines 144-147: the length of the id is not checked
ContinueTryNoLengthCheck(input) ==
    LET userId == Trim(input)
        here == GateCall("set_user_id", welcomes) IN
    IF userId = <<>>
    THEN /\ showStatusMessage(here, <<"Please enter a User ID">>)
         /\ UNCHANGED gateCalls
    ELSE /\ gateCalls' = Append(gateCalls, here)
         /\ UNCHANGED <<controls, badge, statusText, poller, screen,
                        listeners, welcomes, statusMessage>>

\* lines 135-149: a click on Continue up to the await or the early return
ContinueTry(input) ==
    LET userId == Trim(input)
        here == GateCall("set_user_id", welcomes) IN
    IF userId = <<>>
    THEN /\ showStatusMessage(here, <<"Please enter a User ID">>)
         /\ UNCHANGED gateCalls
    ELSE IF Len(userId) < 3
    THEN /\ showStatusMessage(here, <<"User ID must be at least 3 characters long">>)
         /\ UNCHANGED gateCalls
    ELSE /\ gateCalls' = Append(gateCalls, here)
         /\ UNCHANGED <<controls, badge, statusText, poller, screen,
                        listeners, welcomes, statusMessage>>

ContinueClick ==
    \E input \in Inputs :
        /\ screen = "welcome"
        /\ Len(gateCalls) < MaxGateCalls
        /\ ContinueTry(input)
        /\ GateDid("continue", Trim(input))
        /\ UNCHANGED idConfirmed

\* lines 149-155: set_user_id returned, the 800 ms timer is set
SetUserIdOk ==
    \E i \in DOMAIN gateCalls :
        /\ gateCalls[i].pc = "set_user_id"
        /\ showStatusMessage(gateCalls[i], <<"User ID set successfully! Loading...">>)
        /\ gateCalls' = Replace(gateCalls, i, GateCall("timer-800", gateCalls[i].dom))
        /\ GateDid("set-ok", "")
        /\ UNCHANGED idConfirmed

\* lines 172-175: set_user_id threw
SetUserIdErr ==
    \E i \in DOMAIN gateCalls, error \in Errors :
        /\ gateCalls[i].pc = "set_user_id"
        /\ showStatusMessage(gateCalls[i], ErrorText(error))
        /\ gateCalls' = Without(gateCalls, i)
        /\ GateDid("set-failed", error)
        /\ UNCHANGED idConfirmed

\* lines 155-158: the 800 ms timer fires, is_user_id_set is called
RecheckTimer ==
    \E i \in DOMAIN gateCalls :
        /\ gateCalls[i].pc = "timer-800"
        /\ gateCalls' = Replace(gateCalls, i, GateCall("recheck", gateCalls[i].dom))
        /\ GateDid("recheck", "")
        /\ UNCHANGED <<controls, badge, statusText, poller, screen, listeners,
                       welcomes, statusMessage, idConfirmed>>

\* lines 158-160: it returned true
RecheckSet ==
    \E i \in DOMAIN gateCalls :
        /\ gateCalls[i].pc = "recheck"
        /\ CanShowMainApp
        /\ showMainApp
        /\ idConfirmed' = TRUE
        /\ gateCalls' = Without(gateCalls, i)
        /\ GateDid("recheck-set", "")

\* lines 161-165: it returned false, the 300 ms timer is set
RecheckUnset ==
    \E i \in DOMAIN gateCalls :
        /\ gateCalls[i].pc = "recheck"
        /\ gateCalls' = Replace(gateCalls, i, GateCall("timer-300", gateCalls[i].dom))
        /\ GateDid("recheck-unset", "")
        /\ UNCHANGED <<controls, badge, statusText, poller, screen, listeners,
                       welcomes, statusMessage, idConfirmed>>

\* lines 167-170: it threw
RecheckErr ==
    \E i \in DOMAIN gateCalls, error \in Errors :
        /\ gateCalls[i].pc = "recheck"
        /\ showStatusMessage(gateCalls[i], ErrorText(error))
        /\ gateCalls' = Without(gateCalls, i)
        /\ GateDid("recheck-failed", error)
        /\ UNCHANGED idConfirmed

\* lines 163-165: the 300 ms timer fires, checkUserId is called
RetryTimer ==
    \E i \in DOMAIN gateCalls :
        /\ gateCalls[i].pc = "timer-300"
        /\ gateCalls' = Replace(gateCalls, i, GateCall("checkUserId", gateCalls[i].dom))
        /\ GateDid("retry", "")
        /\ UNCHANGED <<controls, badge, statusText, poller, screen, listeners,
                       welcomes, statusMessage, idConfirmed>>

NextGate ==
    \/ CheckUserIdSet \/ CheckUserIdUnset \/ CheckUserIdErr
    \/ ContinueClick \/ SetUserIdOk \/ SetUserIdErr
    \/ RecheckTimer \/ RecheckSet \/ RecheckUnset \/ RecheckErr
    \/ RetryTimer

SpecGate == InitGate /\ [][NextGate]_vars

----------------------------------------------------------------------------
(* The earlier handlers startRecording and stopRecording with their
   recording-finished listener, src/src/network-usage.ts 78-130, and
   startScreenshotting and stopScreenshotting with their two listeners,
   src/unnamed/part_000 19-77: the same statements but for the names, the
   first status text and the screenshot-taken listener.  track tells which
   of the two pages runs; line numbers are those of network-usage.ts *)

EarlierPages == {"startRecording", "startScreenshotting"}

InitEarlier == Loaded /\ Started /\ track \in EarlierPages

\* line 82, part_000 line 23
StartingText ==
    IF track = "startRecording" THEN "Recording..."
    ELSE "Screenshotting started... Screenshots will be taken every 15 minutes"

\* line 102, part_000 line 43
StoppingText ==
    IF track = "startRecording" THEN "Stopping recording..."
    ELSE "Stopping screenshotting..."

\* lines 81-82
startRecordingTry ==
    /\ recordDisabled' = TRUE
    /\ statusText' = <<StartingText>>
    /\ UNCHANGED <<recordDisplay, stopDisplay, stopDisabled, badge>>

\* lines 85-90
startRecordingSuccess(result) ==
    /\ statusText' = <<result>>
    /\ recordDisplay' = "none"
    /\ stopDisplay' = "block"
    /\ UNCHANGED <<recordDisabled, stopDisabled, badge>>

\* lines 91-94
startRecordingCatch(error) ==
    /\ statusText' = ErrorText(error)
    /\ recordDisabled' = FALSE
    /\ UNCHANGED <<recordDisplay, stopDisplay, stopDisabled, badge>>

\* lines 101-102
stopRecordingTry ==
    /\ stopDisabled' = TRUE
    /\ statusText' = <<StoppingText>>
    /\ UNCHANGED <<recordDisplay, recordDisabled, stopDisplay, badge>>

\* lines 105-110, then the finally block 113-115
stopRecordingSuccess(result) ==
    /\ statusText' = <<result>>
    /\ recordDisplay' = "block"
    /\ stopDisplay' = "none"
    /\ stopDisabled' = FALSE
    /\ UNCHANGED <<recordDisabled, badge>>

\* lines 111-112, then the finally block 113-115
stopRecordingCatch(error) ==
    /\ statusText' = ErrorText(error)
    /\ stopDisabled' = FALSE
    /\ UNCHANGED <<recordDisplay, recordDisabled, stopDisplay, badge>>

EarlierClickStart ==
    /\ CanClickStart
    /\ Len(calls) < MaxInFlight
    /\ startRecordingTry
    /\ calls' = Append(calls, Activation("start", "start_recording"))
    /\ Did("earlier-click-start", Activation("start", "start_recording"), "")
    /\ UNCHANGED <<polls, pollTimer, history>>

EarlierStartOk ==
    \E i \in DOMAIN calls, result \in Results :
        /\ calls[i].pc = "start_recording"
        /\ startRecordingSuccess(result)
        /\ calls' = Without(calls, i)
        /\ Did("earlier-start-confirmed", calls[i], result)
        /\ UNCHANGED <<polls, pollTimer, history>>

EarlierStartErr ==
    \E i \in DOMAIN calls, error \in Errors :
        /\ calls[i].pc = "start_recording"
        /\ startRecordingCatch(error)
        /\ calls' = Without(calls, i)
        /\ Did("earlier-start-failed", calls[i], error)
        /\ UNCHANGED <<polls, pollTimer, history>>

EarlierClickStop ==
    /\ CanClickStop
    /\ Len(calls) < MaxInFlight
    /\ stopRecordingTry
    /\ calls' = Append(calls, Activation("stop", "stop_recording"))
    /\ Did("earlier-click-stop", Activation("stop", "stop_recording"), "")
    /\ UNCHANGED <<polls, pollTimer, history>>

EarlierStopOk ==
    \E i \in DOMAIN calls, result \in Results :
        /\ calls[i].pc = "stop_recording"
        /\ stopRecordingSuccess(result)
        /\ calls' = Without(calls, i)
        /\ Did("earlier-stop-confirmed", calls[i], result)
        /\ UNCHANGED <<polls, pollTimer, history>>

EarlierStopErr ==
    \E i \in DOMAIN calls, error \in Errors :
        /\ calls[i].pc = "stop_recording"
        /\ stopRecordingCatch(error)
        /\ calls' = Without(calls, i)
        /\ Did("earlier-stop-failed", calls[i], error)
        /\ UNCHANGED <<polls, pollTimer, history>>

\* lines 120-130: the text is appended to, the buttons are swapped
EarlierRecordingFinishedUI(payload) ==
    /\ statusText' = statusText \o <<Sep, payload>>
    /\ recordDisplay' = "block"
    /\ stopDisplay' = "none"
    /\ stopDisabled' = FALSE
    /\ UNCHANGED <<recordDisabled, badge>>

EarlierRecordingFinished ==
    \E payload \in Payloads :
        /\ Appends(statusText) < MaxAppends
        /\ EarlierRecordingFinishedUI(payload)
        /\ Event("earlier-finished", payload)
        /\ UNCHANGED <<calls, pollTimer, history>>

\* part_000 lines 61-65
EarlierScreenshotTaken ==
    \E payload \in Payloads :
        /\ track = "startScreenshotting"
        /\ SetText(<<"Screenshot taken: ", payload>>)
        /\ Event("earlier-screenshot-taken", payload)
        /\ UNCHANGED <<calls, pollTimer, history>>

\* What the backend's greet replies
Greeting == "Hello"

\* lines 69-72 and 139-142: the greet form is submitted, greet is called
GreetSubmit ==
    /\ greets < MaxGreets
    /\ greets' = greets + 1
    /\ Step("greet-submit", NoCall, "")
    /\ UNCHANGED <<controls, badge, statusText, calls, polls, pollTimer,
                   history, greetMsg>>

\* line 72: the reply is put on display
GreetOk ==
    /\ greets > 0
    /\ greets' = greets - 1
    /\ greetMsg' = Greeting
    /\ Step("greet-result", NoCall, Greeting)
    /\ UNCHANGED <<controls, badge, statusText, calls, polls, pollTimer,
                   history>>

\* line 72: greet threw, nothing catches it
GreetErr ==
    \E error \in Errors :
        /\ greets > 0
        /\ greets' = greets - 1
        /\ Step("greet-failed", NoCall, error)
        /\ UNCHANGED <<controls, badge, statusText, calls, polls, pollTimer,
                       history, greetMsg>>

NextEarlier ==
    \/ EarlierClickStart \/ EarlierStartOk \/ EarlierStartErr
    \/ EarlierClickStop \/ EarlierStopOk \/ EarlierStopErr
    \/ EarlierRecordingFinished \/ EarlierScreenshotTaken
    \/ GreetSubmit \/ GreetOk \/ GreetErr

SpecEarlier == InitEarlier /\ [][NextEarlier]_vars

----------------------------------------------------------------------------
Next ==
    \/ ClickStart \/ StartCallOk \/ StartCallErr \/ StartIdleOk \/ StartIdleErr
    \/ ClickStop \/ StopCallOk \/ StopCallErr \/ StopIdleOk \/ StopIdleErr
    \/ ScreenshotTaken \/ ScreenshottingFinished
    \/ RecordingStarted \/ RecordingProgress \/ RecordingFinished
    \/ RecordingPaused \/ RecordingResumed
    \/ RecordingConverted \/ RecordingError
    \/ AllProcessesStopped
    \/ UserIdle \/ UserActive
    \/ SystemIdleStatus \/ PollTick \/ PollOk \/ PollErr

Spec == Init /\ [][Next]_vars
SpecCommands == InitCommands /\ [][Next]_vars
SpecSamples == InitSamples /\ [][Next]_vars

\* A backend call of a command handler returns or throws
Returns ==
    \/ StartCallOk \/ StartCallErr \/ StartIdleOk \/ StartIdleErr
    \/ StopCallOk \/ StopCallErr \/ StopIdleOk \/ StopIdleErr

\* It is the call of the activation suspended longest
OldestReturns ==
    /\ Returns
    /\ \/ calls' = Tail(calls)
       \/ Len(calls') = Len(calls) /\ Tail(calls') = Tail(calls)

\* The two command handlers and the listeners that write the controls; the
\* other listeners write the badge and the status text alone
NextLive ==
    \/ ClickStart \/ StartCallOk \/ StartCallErr \/ StartIdleOk \/ StartIdleErr
    \/ ClickStop \/ StopCallOk \/ StopCallErr \/ StopIdleOk \/ StopIdleErr
    \/ ScreenshottingFinished \/ RecordingFinished \/ AllProcessesStopped

\* Every backend call of a command handler returns or throws in the end
SpecLive == Init /\ [][NextLive]_vars /\ WF_vars(OldestReturns)

\* The page with the tray's requests and the running poller
NextApp ==
    \/ Next
    \/ StartMonitoringRequest \/ StopMonitoringRequest
    \/ MonitorCallOk \/ MonitorCallErr
    \/ PollerTick \/ FetchOk \/ FetchUnparsable \/ FetchErr

SpecApp == InitApp /\ [][NextApp]_vars

\* One NetworkUsageComponent under any sequence of start() and stop()
NextPoller ==
    \/ PollerStart \/ PollerStop \/ PollerTick
    \/ FetchOk \/ FetchUnparsable \/ FetchErr

SpecPoller == InitPoller /\ [][NextPoller]_vars

----------------------------------------------------------------------------
(* What the screen shows *)

StartOffered == recordDisplay = "block" /\ ~recordDisabled
StopHidden == stopDisplay = "none"
ShowsStopped == StartOffered /\ StopHidden
\* Stop is on display and no command is pending: Recording or Paused
ShowsRecording ==
    /\ stopDisplay = "block"
    /\ recordDisplay = "none"
    /\ calls = <<>>

StartInFlight == \E i \in DOMAIN calls : calls[i].op = "start"
StopInFlight == \E i \in DOMAIN calls : calls[i].op = "stop"

StopThrew == {"stop-failed", "stop-idle-failed"}
StopDone == {"stop-confirmed"} \cup StopThrew
StartThrew == {"start-failed", "start-idle-failed"}
SampleOps == {"system-idle-status", "poll-result"}
ActivityOps == {"user-idle", "user-active"} \cup SampleOps

ActivityColor(status) == IF status = "active" THEN Green ELSE Yellow

FetchThrew == {"net-fetch-failed", "net-fetch-unparsable"}
FetchDone == {"net-fetch-ok"} \cup FetchThrew
SensorThrew == {"poll-failed", "monitor-failed"} \cup FetchThrew

\* The text is an error message of a command handler
IsErrorText(text) == Len(text) >= 1 /\ text[1] = "Error: "
\* The text is the other one with pieces appended
Extends(text, other) ==
    /\ Len(text) > Len(other)
    /\ SubSeq(text, 1, Len(other)) = other

----------------------------------------------------------------------------
(* Claims *)

\* C1: when stopCombinedRecording ends, by success or by a throw of either
\* backend call, Start is shown and enabled and Stop is hidden and enabled;
\* after a throw the status text is "Error: " followed by what was thrown.
C1_StopAlwaysResets ==
    lastOp \in StopDone =>
        /\ ShowsStopped
        /\ ~stopDisabled
        /\ lastOp \in StopThrew => statusText = <<"Error: ", lastArg>>

\* C1 witness: stop_idle_detection threw after stop_combined_recording
\* succeeded.
C1_Witness == lastOp = "stop-idle-failed" /\ lastArg \in Errors

\* C2: right after the all-processes-stopped listener ran, in whatever state
\* it ran, Start is shown and enabled, Stop is hidden and the badge is red.
C2_AdminOverrideStops ==
    lastOp = "all-processes-stopped" =>
        ShowsStopped /\ badge = Red

\* C2 witness: the event was handled with a Start and a Stop command pending.
C2_Witness ==
    /\ lastOp = "all-processes-stopped"
    /\ StartInFlight
    /\ StopInFlight

\* C3: a Start confirmed after all-processes-stopped was handled while it was
\* pending changes neither the buttons nor the badge.
C3_LateStartConfirmationIgnored ==
    [][(lastOp' = "start-confirmed" /\ lastCall'.overridden)
        => UNCHANGED <<controls, badge>>]_vars

\* C4: a Stop that ends after a Start issued later than it has been confirmed
\* changes neither the buttons nor the badge.
C4_StaleStopDiscarded ==
    [][(lastOp' \in StopDone /\ lastCall'.superseded)
        => UNCHANGED <<controls, badge>>]_vars

\* C5: at most one command is pending at any time.
C5_OneCommandInFlight == Len(calls) <= 1

\* C6: while a Start is pending the Stop button takes a click.
C6_StopAvailableWhileStarting == StartInFlight => CanClickStop

\* C7: when a backend call of startCombinedRecording throws, Start is shown
\* and enabled, Stop is hidden and the status text is "Error: " followed by
\* what was thrown.
C7_FailedStartReturnsToStopped ==
    lastOp \in StartThrew =>
        /\ ShowsStopped
        /\ statusText = <<"Error: ", lastArg>>

\* C7 witness: start_combined_recording threw.
C7_Witness == lastOp = "start-failed" /\ lastArg \in Errors

\* C8: after an activity sample came by push or by poll, the badge shows the
\* status of the sample with the largest timestamp received so far: a sample
\* older than one that came by the other channel is discarded.
C8_NewestSampleWins ==
    /\ (lastOp \in SampleOps /\ lastTs = newestTs)
        => badge = ActivityColor(newestStatus)
    /\ (lastOp = "poll-result" /\ lastTs < newestTs /\ newestSource = "push")
        => badge = ActivityColor(newestStatus)
    /\ (lastOp = "system-idle-status" /\ lastTs < newestTs /\ newestSource = "poll")
        => badge = ActivityColor(newestStatus)

\* C9: an idle or active input that arrives while the screen does not show a
\* running session leaves the badge colour as it was.
C9_ActivityPaintedOnlyWhileRecording ==
    [][(lastOp' \in ActivityOps /\ ~ShowsRecording) => badge' = badge]_vars

\* C10: an idle or active input changes neither the display nor the enabled
\* flag of a button and neither starts nor ends a command.
C10_ActivityNeverDrivesSession ==
    [][lastOp' \in ActivityOps => UNCHANGED <<controls, calls>>]_vars

\* C10 witness: user-idle was handled while Stop was on display.
C10_Witness ==
    /\ lastOp = "user-idle"
    /\ lastArg \in StringPayloads
    /\ stopDisplay = "block"

\* C11: under any sequence of start() and stop() a component has at most one
\* live interval timer, and right after a stop() it has none.
C11_AtMostOneTimer ==
    /\ Cardinality(timers) <= 1
    /\ lastOp = "net-stop" => timers = {}

\* C12: stop() on a component whose intervalId is null leaves intervalId
\* null, creates and clears no timer and leaves the displayed statistics.
C12_StopWhenStoppedIsNoOp ==
    [][(lastOp' = "net-stop" /\ intervalId = 0)
        => (intervalId' = 0 /\ UNCHANGED <<timers, stats>>)]_vars

\* C12 witness: stop() ran with no timer to clear while statistics were on
\* display.
C12_Witness ==
    /\ lastOp = "net-stop"
    /\ lastArg = "no-timer"
    /\ stats # NoStats

\* C13: the reply to a fetch issued before a stop() does not change the
\* displayed statistics, and no fetch is issued while intervalId is null.
C13_DiscardOnStop ==
    /\ [][(lastOp' = "net-fetch-ok" /\ lastArg' = "stale")
            => stats' = stats]_vars
    /\ [][intervalId = 0 => lastOp' # "net-tick"]_vars

\* C14: after the tray asked to stop monitoring and until it asks to start
\* it, no get_cached_idle_status call is issued and no pushed or polled
\* status paints the badge.
C14_StopCancelsPolling ==
    [][monitoring = "stopped"
        => /\ lastOp' # "poll-tick"
           /\ lastOp' \in SampleOps => badge' = badge]_vars

\* C15: when get_cached_idle_status throws, the buttons, the badge and the
\* status text stay as they were, the poll timer stays live and the next
\* call can be issued.
C15_PollFailureAbsorbed ==
    [][lastOp' = "poll-failed"
        => /\ UNCHANGED <<controls, badge, statusText>>
           /\ pollTimer'
           /\ polls' < MaxPolls]_vars

\* C15 witness: the poll failed while the page showed a running session.
C15_Witness ==
    /\ lastOp = "poll-failed"
    /\ ShowsRecording
    /\ badge = Blue

\* C16: no end of a statistics fetch changes the buttons, the badge or the
\* status text; a fetch that threw, by rejection or by an unparsable reply,
\* leaves the displayed statistics and the live timer as they were.
C16_PollerDecoupled ==
    [][lastOp' \in FetchDone
        => /\ UNCHANGED <<controls, badge, statusText>>
           /\ lastOp' \in FetchThrew
                => /\ UNCHANGED <<stats, intervalId, timers>>
                   /\ intervalId' \in timers']_vars

\* C16 witness: an unparsable reply came while statistics were on display
\* and the page showed a running session.
C16_Witness ==
    /\ lastOp = "net-fetch-unparsable"
    /\ stats # NoStats
    /\ ShowsRecording

\* C17: a click on Start disables the Start button; when
\* start_combined_recording returns right after the click, Start is still
\* disabled and the status text is the reply; when start_idle_detection
\* returns, Start is hidden, Stop shown and enabled and the badge blue, and
\* right after the reply the status text is still the reply.
C17_ScenarioA ==
    [][/\ lastOp' = "click-start" => recordDisabled'
       /\ (lastOp = "click-start" /\ lastOp' = "start-result")
            => (recordDisabled' /\ statusText' = <<lastArg'>>)
       /\ lastOp' = "start-confirmed"
            => /\ recordDisplay' = "none"
               /\ stopDisplay' = "block"
               /\ ~stopDisabled'
               /\ badge' = Blue
       /\ (lastOp = "start-result" /\ lastOp' = "start-confirmed")
            => statusText' = <<lastArg>>]_vars

\* C17 witness: the Start was confirmed and the reply is on display.
C17_Witness ==
    /\ lastOp = "start-confirmed"
    /\ calls = <<>>
    /\ statusText \in {<<result>> : result \in Results}

\* C18: recording-paused paints the badge yellow, recording-resumed paints
\* it blue, also right after recording-paused, and neither changes the
\* display or the enabled flag of a button.
C18_ScenarioB ==
    [][/\ lastOp' = "recording-paused"
            => (badge' = Yellow /\ UNCHANGED controls)
       /\ lastOp' = "recording-resumed"
            => (badge' = Blue /\ UNCHANGED controls)
       /\ (lastOp = "recording-paused" /\ lastOp' = "recording-resumed")
            => (badge = Yellow /\ badge' = Blue)]_vars

\* C18 witness: recording-resumed was handled while Stop was on display.
C18_Witness ==
    /\ lastOp = "recording-resumed"
    /\ ShowsRecording
    /\ badge = Blue

\* C19: a status text that is a new error message was written by a catch
\* branch of startCombinedRecording or stopCombinedRecording; a throw of
\* get_cached_idle_status, of start/stop_system_idle_monitoring or of the
\* statistics fetch leaves the status text as it was.
C19_OnlyCommandFailuresShown ==
    [][/\ (/\ IsErrorText(statusText')
            /\ statusText' # statusText
            /\ ~Extends(statusText', statusText))
            => lastOp' \in StartThrew \cup StopThrew
       /\ lastOp' \in SensorThrew => statusText' = statusText]_vars

\* C19 witness: a monitoring call threw while a status text was on display.
C19_Witness ==
    /\ lastOp = "monitor-failed"
    /\ statusText # <<>>
    /\ ~IsErrorText(statusText)

\* C20: whenever no start or stop command is pending, the Start button or
\* the Stop button takes a click.
C20_Resumable == calls = <<>> => (CanClickStart \/ CanClickStop)

\* C20 witness: a stop command threw and nothing is pending.
C20_Witness ==
    /\ lastOp \in StopThrew
    /\ calls = <<>>
    /\ CanClickStart

\* C21: whatever the user-id checks reply and however Continue is clicked,
\* initializeMainAppComponents has run at most once: each backend event has
\* at most one handler and at most one statistics timer is live.
C21_InitializedOnce == listeners <= 1 /\ Cardinality(timers) <= 1

\* C22: the status text after screenshotting-finished was handled is what
\* the listener makes of the payload alone, the payload after the separator,
\* whatever text was on display before.
C22_TextFromInputAlone ==
    [][lastOp' = "screenshotting-finished"
        => statusText' = <<Sep, lastArg'>>]_vars

\* C23: with no command pending, a page that shows Start and hides Stop
\* does not have a blue badge, and a page that shows Stop does not have a
\* red one.
C23_BadgeFollowsControls ==
    calls = <<>> =>
        /\ ShowsStopped => badge # Blue
        /\ stopDisplay = "block" => badge # Red

\* C25: exactly one of the Start button and the Stop button is on display.
C25_OneControlVisible == (recordDisplay = "block") # (stopDisplay = "block")

\* C25 witness: screenshotting-finished was handled with a Start and a Stop
\* pending.
C25_Witness ==
    /\ lastOp = "screenshotting-finished"
    /\ StartInFlight
    /\ StopInFlight

\* C26: when startCombinedRecording ends in its catch branch, the call that
\* threw is start_combined_recording: the capture was not started.
C26_ErrorBranchMeansNotStarted ==
    lastOp \in StartThrew => lastCall.pc = "start_combined_recording"

\* Runs of startCombinedRecording suspended at start_idle_detection
AwaitingIdleStart(s) ==
    Cardinality({i \in DOMAIN s : s[i].pc = "start_idle_detection"})

\* C27: start_idle_detection is called only in the step that handles the
\* reply of start_combined_recording, and a stopCombinedRecording that ends
\* with the page showing Stopped has called stop_idle_detection.
C27_IdleDetectionPaired ==
    [][/\ AwaitingIdleStart(calls') > AwaitingIdleStart(calls)
            => lastOp' = "start-result"
       /\ (lastOp' \in StopDone /\ ShowsStopped')
            => lastCall'.pc = "stop_idle_detection"]_vars

EarlierStopDone == {"earlier-stop-confirmed", "earlier-stop-failed"}

\* C24: when the earlier stopRecording ends, by success or by a throw, Start
\* is shown and enabled and Stop is hidden.
C24_EarlierStopResets == lastOp \in EarlierStopDone => ShowsStopped

StartDisabledOnDisplay == recordDisplay = "block" /\ recordDisabled
StopDisabledOnDisplay == stopDisplay = "block" /\ stopDisabled

\* C28: when every backend call returns or throws in the end, a pending
\* Start leads to the end of a startCombinedRecording, with Stop on display
\* after success and Start shown and enabled after a throw; a pending Stop
\* leads to the end of a stopCombinedRecording with Start shown and enabled;
\* and a button on display does not stay disabled forever.
C28_CommandsComplete ==
    /\ StartInFlight ~> \/ /\ lastOp = "start-confirmed"
                           /\ stopDisplay = "block" /\ recordDisplay = "none"
                        \/ lastOp \in StartThrew /\ ShowsStopped
    /\ StopInFlight ~> (lastOp \in StopDone /\ ShowsStopped)
    /\ StartDisabledOnDisplay ~> ~StartDisabledOnDisplay
    /\ StopDisabledOnDisplay ~> ~StopDisabledOnDisplay

\* C28 witness: a Stop ended while a Start was still pending.
C28_Witness ==
    /\ lastOp \in StopDone
    /\ StartInFlight
    /\ ShowsStopped

\* C29: after recording-finished was handled, Start is shown and enabled,
\* Stop hidden and enabled, the badge red and the status text
\* "Recording finished: " followed by the payload; after
\* screenshotting-finished the buttons are the same and the badge colour is
\* the one from before.
C29_FinishedEventsReset ==
    [][/\ lastOp' = "recording-finished"
            => /\ ShowsStopped'
               /\ ~stopDisabled'
               /\ badge' = Red
               /\ statusText' = <<"Recording finished: ", lastArg'>>
       /\ lastOp' = "screenshotting-finished"
            => /\ ShowsStopped'
               /\ ~stopDisabled'
               /\ badge' = badge]_vars

\* C29 witness: recording-finished was handled with a Start pending and a
\* blue badge before it.
C29_Witness ==
    /\ lastOp = "recording-finished"
    /\ StartInFlight
    /\ recordDisplay = "block"
    /\ badge = Red

GateLetIn == {"check-set", "recheck-set"}
GateKeptOut == {"check-unset", "check-failed", "recheck-unset", "recheck-failed"}

AwaitingSetUserId(s) ==
    Cardinality({i \in DOMAIN s : s[i].pc = "set_user_id"})

\* C31: set_user_id is called only by a click on Continue whose trimmed
\* input has at least 3 characters and no blank at either end; a click with
\* an empty or shorter trimmed input writes the matching error message,
\* calls no backend command and leaves the welcome screen and the rest of
\* the page as they were.
C31_OnlyValidIdsAreSet ==
    [][/\ AwaitingSetUserId(gateCalls') > AwaitingSetUserId(gateCalls)
            => /\ lastOp' = "continue"
               /\ Len(lastArg') >= 3
               /\ Head(lastArg') # " "
               /\ lastArg'[Len(lastArg')] # " "
       /\ (lastOp' = "continue" /\ Len(lastArg') < 3)
            => /\ statusMessage' =
                     IF lastArg' = <<>>
                     THEN <<"Please enter a User ID">>
                     ELSE <<"User ID must be at least 3 characters long">>
               /\ screen' = "welcome"
               /\ UNCHANGED <<gateCalls, welcomes, listeners, poller,
                              calls, monitorCalls, greets>>]_vars

\* C31 witness: Continue was clicked with an input that trims to one or two
\* characters, the length message is shown and set_user_id is not pending.
C31_Witness ==
    /\ lastOp = "continue"
    /\ Len(lastArg) \in 1..2
    /\ statusMessage = <<"User ID must be at least 3 characters long">>
    /\ AwaitingSetUserId(gateCalls) = 0
    /\ screen = "welcome"

====
